---- MODULE Spec2Model ----
(***************************************************************************)
(* A model of the catalog-matching and ranking engine of the SHL           *)
(* assessment recommender (src/app/recommender.py).                        *)
(*                                                                         *)
(* Conventions.                                                            *)
(*  - A Python Optional value is a sequence of length at most one:         *)
(*    None is <<>> and the value v is <<v>>.                               *)
(*  - A free-text string that the code inspects character by character     *)
(*    (the duration field) is a sequence of one-character strings.         *)
(*  - A similarity is kept exactly, in units of 1/25: the vectors of the   *)
(*    model have integer norms 0, 1 or 5, so 25 * cosine is an integer.    *)
(***************************************************************************)
EXTENDS Integers, Sequences, FiniteSets, TLC

VARIABLES
    file,          \* the catalog file at catalog_path
    pc,            \* "start" | "ready" | "failed": the recommender object
    catalog_data,  \* self.catalog_data, once loaded
    writes,        \* number of times the catalog file was (re)written
    load_error,    \* the exception that ended construction, "" when none
    args,          \* arguments of the last get_recommendations call
    result,        \* outcome of the last get_recommendations call
    runs,          \* completed runs of process_embeddings on this path
    benchmark,     \* the RecommenderBenchmark: its test queries and summary
    procs,         \* OS processes constructing a recommender on the path
    threads        \* threads inside get_recommendations on one recommender

vars == <<file, pc, catalog_data, writes, load_error, args, result, runs, benchmark,
          procs, threads>>

(***************************************************************************)
(* Bounds of the model.                                                    *)
(***************************************************************************)
MaxCatalog == 2     \* longest catalog drawn from the record pool
MaxDurLen == 3      \* longest free-text duration drawn from the alphabet
MaxRuns == 2        \* cap on the counted runs of process_embeddings
MaxTestQueries == 2 \* longest test-query file drawn from the pool

None == <<>>
Some(v) == <<v>>
IsNone(o) == o = <<>>
Val(o) == o[1]

Min(a, b) == IF a <= b THEN a ELSE b
Max(a, b) == IF a >= b THEN a ELSE b

(***************************************************************************)
(* Characters and digits (str.isdigit, int).                               *)
(***************************************************************************)
Digits == {"0", "1", "2", "3", "4", "5", "6", "7", "8", "9"}

IsDigit(c) == c \in Digits

DigitVal(c) ==
    CASE c = "0" -> 0 [] c = "1" -> 1 [] c = "2" -> 2 [] c = "3" -> 3
      [] c = "4" -> 4 [] c = "5" -> 5 [] c = "6" -> 6 [] c = "7" -> 7
      [] c = "8" -> 8 [] c = "9" -> 9

\* filter(pred, s): the characters of s that satisfy pred, in order.
RECURSIVE FilterDigits(_)
FilterDigits(s) ==
    IF s = <<>> THEN <<>>
    ELSE IF IsDigit(Head(s)) THEN <<Head(s)>> \o FilterDigits(Tail(s))
    ELSE FilterDigits(Tail(s))

\* int(ds) for a non-empty sequence of decimal digits.
RECURSIVE IntOfDigits(_)
IntOfDigits(ds) ==
    IF ds = <<>> THEN 0
    ELSE 10 * IntOfDigits(SubSeq(ds, 1, Len(ds) - 1)) + DigitVal(ds[Len(ds)])

\* SHLRecommender._parse_duration: falsy input (None, "") gives 0; otherwise
\* int() of all the digit characters joined; int("") raises ValueError,
\* which is caught and gives 0.
parse_duration(duration_str) ==
    IF IsNone(duration_str) \/ Val(duration_str) = <<>> THEN 0
    ELSE LET ds == FilterDigits(Val(duration_str))
         IN IF ds = <<>> THEN 0 ELSE IntOfDigits(ds)

(***************************************************************************)
(* Vectors, the encoder and cosine similarity.                             *)
(***************************************************************************)
RECURSIVE Dot(_, _)
Dot(u, v) ==
    IF u = <<>> THEN 0 ELSE Head(u) * Head(v) + Dot(Tail(u), Tail(v))

\* Euclidean norm; exact on the vectors of the model.
Norm(v) == CHOOSE n \in 0..10 : n * n = Dot(v, v)

\* SentenceTransformer.encode: a deterministic map from a text to a vector
\* of the encoder's fixed dimensionality (two in the model).
encode(text) ==
    CASE text = "Verbal Reasoning Evaluates written information" -> <<3, 4>>
      [] text = "Numerical Reasoning Tests numerical data" -> <<4, 3>>
      [] text = "Leadership Assessment Evaluates leadership" -> <<3, 4>>
      [] text = "Range Test " -> <<1, 0>>
      [] text = " " -> <<0, 0>>
      [] text = "verbal" -> <<3, 4>>
      [] text = "numbers" -> <<1, 0>>
      [] text = "" -> <<0, 0>>
      [] OTHER -> <<0, 1>>

\* sklearn cosine_similarity([q], [e])[0][0], in units of 1/25.  A zero
\* vector is normalised with norm 1 and so scores 0.  The caller checks the
\* shapes first (DimensionsAgree): sklearn raises ValueError on a mismatch.
cosine_similarity(q, e) ==
    LET nq == IF Norm(q) = 0 THEN 1 ELSE Norm(q)
        ne == IF Norm(e) = 0 THEN 1 ELSE Norm(e)
    IN (25 * Dot(q, e)) \div (nq * ne)

\* Mutant: the shapes are not compared.
DimensionsIgnored(q, e) == TRUE

DimensionsAgree(q, e) == Len(q) = Len(e)

(***************************************************************************)
(* Records of the catalog.  A dict entry that may be missing is an         *)
(* Optional; the duration entry, which the code reads with a default, is   *)
(* an Optional (key present?) of an Optional (null?) free text.            *)
(***************************************************************************)
DictGet(entry, default) == IF entry = <<>> THEN default ELSE entry[1]

Assessment(name, description, job_levels, languages, duration, test_type, embedding) ==
    [name |-> name, description |-> description, job_levels |-> job_levels,
     languages |-> languages, duration |-> duration, test_type |-> test_type,
     embedding |-> embedding]

Text30Minutes == <<"3", "0", " ", "m", "i", "n", "u", "t", "e", "s">>
Text45Minutes == <<"4", "5", " ", "m", "i", "n", "u", "t", "e", "s">>
Text60Minutes == <<"6", "0", " ", "m", "i", "n", "u", "t", "e", "s">>
Text15To20Minutes == <<"1", "5", "-", "2", "0", " ", "m", "i", "n", "u", "t", "e", "s">>
Text1Hour30Minutes ==
    <<"1", " ", "h", "o", "u", "r", " ", "3", "0", " ", "m", "i", "n", "u", "t", "e", "s">>
Text0Minutes == <<"0", " ", "m", "i", "n", "u", "t", "e", "s">>

VerbalReasoning ==
    Assessment("Verbal Reasoning", "Evaluates written information",
               {"entry", "mid"}, {"en"}, Some(Some(Text30Minutes)),
               Some("cognitive"), Some(<<3, 4>>))
NumericalReasoning ==
    Assessment("Numerical Reasoning", "Tests numerical data",
               {"mid", "senior"}, {"en", "es"}, Some(Some(Text45Minutes)),
               Some("cognitive"), Some(<<4, 3>>))
LeadershipAssessment ==
    Assessment("Leadership Assessment", "Evaluates leadership",
               {"senior"}, {"en"}, Some(Some(Text60Minutes)),
               Some("behavioral"), Some(<<3, 4>>))
\* A record as the scraper leaves it when a page yields little: no levels,
\* no languages, a range as duration, no embedding yet.
RangeTest ==
    Assessment("Range Test", "", {}, {}, Some(Some(Text15To20Minutes)),
               None, None)
\* A record whose stored embedding has another dimensionality.
WideVector ==
    Assessment("Wide Vector", "Stored with three components",
               {"mid"}, {"es"}, <<>>, Some("cognitive"), Some(<<1, 0, 0>>))
\* A record with a null duration and a zero embedding.
Untimed ==
    Assessment("Untimed", "No duration", {"mid"}, {"en"}, Some(None),
               Some("behavioral"), Some(<<0, 0>>))

\* LeadershipAssessment enters through the example catalog only.
RecordPool ==
    {VerbalReasoning, NumericalReasoning, RangeTest, WideVector, Untimed}

\* The three-record example catalog.
ExampleCatalog == <<VerbalReasoning, NumericalReasoning, LeadershipAssessment>>

SeqsUpTo(S, n) == UNION {[1..k -> S] : k \in 0..n}

Catalog(assessments, embeddings) ==
    [assessments |-> assessments, embeddings |-> embeddings]

NoCatalog == Catalog(None, None)

EmbeddingsEntries == {None, Some(TRUE), Some(FALSE)}

PoolCatalogs ==
    {Catalog(Some(l), e) : l \in SeqsUpTo(RecordPool, MaxCatalog) \cup {ExampleCatalog},
                           e \in EmbeddingsEntries}
      \cup {Catalog(None, e) : e \in EmbeddingsEntries}

File(kind, data) == [kind |-> kind, data |-> data]

PoolFiles ==
    {File("json", c) : c \in PoolCatalogs}
      \cup {File("absent", NoCatalog), File("garbage", NoCatalog)}

(***************************************************************************)
(* SHLRecommender.__init__ and process_embeddings.                         *)
(***************************************************************************)
Assessments(catalog) == DictGet(catalog.assessments, <<>>)

\* Mutant: the name is left out of the encoded text.
WithDescriptionEmbeddings(assessments) ==
    [i \in 1..Len(assessments) |->
        [assessments[i] EXCEPT !.embedding = Some(encode(assessments[i].description))]]

\* The loop of process_embeddings: every record gets the encoding of its
\* name and description joined by a space.
WithEmbeddings(assessments) ==
    [i \in 1..Len(assessments) |->
        [assessments[i] EXCEPT
            !.embedding = Some(encode(assessments[i].name \o " " \o assessments[i].description))]]

\* A JSON value of the wrong shape: a top-level list is [items |-> ...] and
\* a list element that is no object is [scalar |-> ...].
IsTopLevelList(data) == DOMAIN data = {"items"}
IsObject(element) == DOMAIN element # {"scalar"}

\* Mutant: the guard of process_embeddings is gone, it always generates.
NeedsEmbeddingsAlways(catalog) == TRUE

\* process_embeddings generates only when the catalog has no 'embeddings'
\* key ('embeddings' not in self.catalog_data; on a list, membership).
NeedsEmbeddings(catalog) ==
    IF IsTopLevelList(catalog)
    THEN ~(\E i \in 1..Len(catalog.items) : catalog.items[i] = "embeddings")
    ELSE IsNone(catalog.embeddings)

\* process_embeddings raises AttributeError when it generates and the
\* catalog is a list (no .get) or a record is no dict (no .get).
ProcessRaises(catalog) ==
    /\ NeedsEmbeddings(catalog)
    /\ \/ IsTopLevelList(catalog)
       \/ \E i \in 1..Len(Assessments(catalog)) : ~IsObject(Assessments(catalog)[i])

ProcessedCatalog(catalog) ==
    IF NeedsEmbeddings(catalog)
    THEN Catalog(IF IsNone(catalog.assessments) THEN None
                 ELSE Some(WithEmbeddings(Val(catalog.assessments))),
                 Some(TRUE))
    ELSE catalog

\* process_embeddings on an in-memory catalog: the catalog is enriched and
\* the file rewritten only when embeddings were generated.
RunProcessEmbeddings(catalog) ==
    /\ catalog_data' = ProcessedCatalog(catalog)
    /\ IF NeedsEmbeddings(catalog)
       THEN /\ file' = File("json", ProcessedCatalog(catalog))
            /\ writes' = writes + 1
       ELSE UNCHANGED <<file, writes>>
    /\ runs' = runs + 1

\* The body of __init__: open and json.load the file, then
\* process_embeddings.
LoadAndProcess ==
    IF file.kind = "absent"
    THEN /\ pc' = "failed"
         /\ load_error' = "FileNotFoundError"
         /\ UNCHANGED <<file, catalog_data, writes, runs>>
    ELSE IF file.kind = "garbage"
    THEN /\ pc' = "failed"
         /\ load_error' = "JSONDecodeError"
         /\ UNCHANGED <<file, catalog_data, writes, runs>>
    ELSE IF ProcessRaises(file.data)
    THEN /\ pc' = "failed"
         /\ load_error' = "AttributeError"
         /\ UNCHANGED <<file, catalog_data, writes, runs>>
    ELSE /\ pc' = "ready"
         /\ RunProcessEmbeddings(file.data)
         /\ UNCHANGED load_error

Construct ==
    /\ pc = "start"
    /\ LoadAndProcess
    /\ UNCHANGED <<args, result, benchmark, procs, threads>>

(***************************************************************************)
(* SHLRecommender.get_recommendations.                                     *)
(***************************************************************************)
\* Python truthiness of an Optional string / an Optional collection.
TruthyStr(o) == ~IsNone(o) /\ Val(o) # ""
TruthySet(o) == ~IsNone(o) /\ Val(o) # {}

JobLevelRejects(a, job_level) ==
    TruthyStr(job_level) /\ Val(job_level) \notin a.job_levels

\* The minutes the duration filter compares: the duration entry, read with
\* the default '0 minutes', parsed.
FilterDuration(a) == parse_duration(DictGet(a.duration, Some(Text0Minutes)))

\* Mutant: the comparison facing the wrong way.
DurationRejectsBelow(a, duration_max) ==
    ~IsNone(duration_max) /\ FilterDuration(a) < Val(duration_max)

\* Mutant: a record exactly at the cap is rejected too.
DurationRejectsAtCap(a, duration_max) ==
    ~IsNone(duration_max) /\ FilterDuration(a) >= Val(duration_max)

DurationRejects(a, duration_max) ==
    ~IsNone(duration_max) /\ FilterDuration(a) > Val(duration_max)

LanguagesReject(a, languages) ==
    TruthySet(languages) /\ ~(\E lang \in Val(languages) : lang \in a.languages)

TestTypeRejects(a, test_type) ==
    TruthyStr(test_type) /\ a.test_type # test_type

Rejected(a, call) ==
    \/ JobLevelRejects(a, call.job_level)
    \/ DurationRejects(a, call.duration_max)
    \/ LanguagesReject(a, call.languages)
    \/ TestTypeRejects(a, call.test_type)

Scored(a, i, sim) == [assessment |-> a, index |-> i, similarity |-> sim]

Outcome(kind, list) == [kind |-> kind, list |-> list]

\* The for loop: records in catalog order; a rejected record or one without
\* an embedding is skipped; cosine_similarity raises ValueError when the
\* shapes differ, which ends the call.
RECURSIVE ScanFrom(_, _, _, _, _)
ScanFrom(assessments, i, query_embedding, call, acc) ==
    IF i > Len(assessments) THEN Outcome("ok", acc)
    ELSE LET a == assessments[i]
         IN IF Rejected(a, call) \/ IsNone(a.embedding)
            THEN ScanFrom(assessments, i + 1, query_embedding, call, acc)
            ELSE IF ~DimensionsAgree(query_embedding, Val(a.embedding))
            THEN Outcome("ValueError", <<>>)
            ELSE ScanFrom(assessments, i + 1, query_embedding, call,
                          Append(acc, Scored(a, i,
                              cosine_similarity(query_embedding, Val(a.embedding)))))

\* list.sort(key=similarity, reverse=True): stable, so an element goes
\* after every element whose key is greater than or equal to its own.
\* Mutant: an element goes before the elements that tie with it.
RECURSIVE InsertBeforeTies(_, _)
InsertBeforeTies(sorted, x) ==
    IF sorted = <<>> THEN <<x>>
    ELSE IF Head(sorted).similarity > x.similarity
    THEN <<Head(sorted)>> \o InsertBeforeTies(Tail(sorted), x)
    ELSE <<x>> \o sorted

RECURSIVE InsertDescending(_, _)
InsertDescending(sorted, x) ==
    IF sorted = <<>> THEN <<x>>
    ELSE IF Head(sorted).similarity >= x.similarity
    THEN <<Head(sorted)>> \o InsertDescending(Tail(sorted), x)
    ELSE <<x>> \o sorted

\* Mutant: reverse=True forgotten, the sort is ascending.
RECURSIVE InsertAscending(_, _)
InsertAscending(sorted, x) ==
    IF sorted = <<>> THEN <<x>>
    ELSE IF Head(sorted).similarity <= x.similarity
    THEN <<Head(sorted)>> \o InsertAscending(Tail(sorted), x)
    ELSE <<x>> \o sorted

RECURSIVE SortAscending(_)
SortAscending(list) ==
    IF list = <<>> THEN <<>>
    ELSE InsertAscending(SortAscending(SubSeq(list, 1, Len(list) - 1)),
                         list[Len(list)])

RECURSIVE SortDescending(_)
SortDescending(list) ==
    IF list = <<>> THEN <<>>
    ELSE InsertDescending(SortDescending(SubSeq(list, 1, Len(list) - 1)),
                          list[Len(list)])

\* The slice list[:n]: a negative n counts from the end.
SlicePrefix(list, n) ==
    IF n >= 0 THEN SubSeq(list, 1, Min(n, Len(list)))
    ELSE SubSeq(list, 1, Max(0, Len(list) + n))

Recommend(catalog, call) ==
    LET scanned == ScanFrom(Assessments(catalog), 1, encode(call.query), call, <<>>)
    IN IF scanned.kind = "ok"
       THEN Outcome("ok", SlicePrefix(SortDescending(scanned.list), call.top_n))
       ELSE scanned

Call(query, job_level, duration_max, languages, test_type, top_n) ==
    [query |-> query, job_level |-> job_level, duration_max |-> duration_max,
     languages |-> languages, test_type |-> test_type, top_n |-> top_n]

Queries == {"verbal", "numbers"}
JobLevelArgs == {None, Some("mid")}
DurationMaxArgs == {None, Some(-1), Some(0), Some(40)}
LanguagesArgs == {None, Some({"es", "fr"})}
TestTypeArgs == {None, Some(""), Some("cognitive")}
TopNArgs == {-1, 0, 1, 5}

NoCall == Call("", None, None, None, None, 0)
NoOutcome == Outcome("none", <<>>)

\* Mutant: the filters delete the rejected records from the catalog list.
CatalogFilteredInPlace(catalog, call) ==
    IF IsNone(catalog.assessments) THEN catalog
    ELSE [catalog EXCEPT !.assessments =
            Some(SelectSeq(Val(catalog.assessments), LAMBDA a : ~Rejected(a, call)))]

\* self.catalog_data after a call: the loop reads the records, the dicts
\* it appends are new ones, and sort and slice act on the local list.
CatalogAfterCall(catalog, call) == catalog

\* One call at a time (the engine is synchronous): the call is made when
\* the previous outcome has been taken by its caller.
get_recommendations(query, job_level, duration_max, languages, test_type, top_n) ==
    /\ pc = "ready"
    /\ result = NoOutcome
    /\ args' = Call(query, job_level, duration_max, languages, test_type, top_n)
    /\ result' = Recommend(catalog_data, args')
    /\ catalog_data' = CatalogAfterCall(catalog_data, args')
    /\ UNCHANGED <<file, pc, writes, load_error, runs, benchmark, procs, threads>>

\* The caller takes the outcome; the scored candidates are discarded.
Return ==
    /\ pc = "ready"
    /\ result # NoOutcome
    /\ args' = NoCall
    /\ result' = NoOutcome
    /\ UNCHANGED <<file, pc, catalog_data, writes, load_error, runs, benchmark,
                   procs, threads>>

NoSummary == [kind |-> "none"]
NoBenchmark == [test_queries |-> <<>>, k |-> 0, summary |-> NoSummary, locals |-> <<>>]

\* No process and no thread: the specifications of one synchronous
\* recommender.
NoProcs == <<>>
NoThreads == <<>>

(***************************************************************************)
(* The recommender over catalogs drawn from the record pool.               *)
(***************************************************************************)
InitWith(files) ==
    /\ file \in files
    /\ pc = "start"
    /\ catalog_data = NoCatalog
    /\ writes = 0
    /\ load_error = ""
    /\ args = NoCall
    /\ result = NoOutcome
    /\ runs = 0
    /\ benchmark = NoBenchmark
    /\ procs = NoProcs
    /\ threads = NoThreads

Init == InitWith(PoolFiles)

Next ==
    \/ Construct
    \/ Return
    \/ \E query \in Queries, job_level \in JobLevelArgs,
          duration_max \in DurationMaxArgs, languages \in LanguagesArgs,
          test_type \in TestTypeArgs, top_n \in TopNArgs :
            get_recommendations(query, job_level, duration_max, languages,
                                test_type, top_n)

Spec == Init /\ [][Next]_vars

(***************************************************************************)
(* The same recommender over one-record catalogs whose duration entry is   *)
(* any free text over a small alphabet, a missing key or null.             *)
(***************************************************************************)
DurationAlphabet == {"1", "2", "-", "m"}

DurationTexts ==
    SeqsUpTo(DurationAlphabet, MaxDurLen)
      \cup {Text30Minutes, Text15To20Minutes, Text1Hour30Minutes}

DurationEntries ==
    {<<>>, Some(None)} \cup {Some(Some(t)) : t \in DurationTexts}

Timed(duration) ==
    Assessment("Range Test", "", {"mid"}, {"en"}, duration, Some("cognitive"),
               Some(<<1, 0>>))

DurationFiles ==
    {File("json", Catalog(Some(<<Timed(d)>>), Some(TRUE))) : d \in DurationEntries}

InitDuration == InitWith(DurationFiles)

SpecDuration == InitDuration /\ [][Next]_vars

(***************************************************************************)
(* Construction and process_embeddings over every kind of file: absent,    *)
(* unparsable, JSON of the wrong shape, and the pool catalogs.             *)
(***************************************************************************)
TopLevelList(items) == [items |-> items]
Scalar(v) == [scalar |-> v]

MisshapenFiles ==
    {File("json", TopLevelList(<<>>)),
     File("json", TopLevelList(<<"embeddings">>))}
      \cup {File("json", Catalog(Some(<<Scalar("oops")>>), e)) : e \in EmbeddingsEntries}

\* A later call of process_embeddings on the constructed recommender.
process_embeddings ==
    /\ pc = "ready"
    /\ runs < MaxRuns
    /\ ~ProcessRaises(catalog_data)
    /\ RunProcessEmbeddings(catalog_data)
    /\ UNCHANGED <<pc, load_error, args, result, benchmark, procs, threads>>

\* A second SHLRecommender constructed on the same path.
Reconstruct ==
    /\ pc = "ready"
    /\ runs < MaxRuns
    /\ LoadAndProcess
    /\ UNCHANGED <<args, result, benchmark, procs, threads>>

InitLoad == InitWith(PoolFiles \cup MisshapenFiles)

NextLoad == Construct \/ process_embeddings \/ Reconstruct

SpecLoad == InitLoad /\ [][NextLoad]_vars

(***************************************************************************)
(* Vocabulary of the properties, stated apart from the operators above.    *)
(***************************************************************************)
Called == pc = "ready" /\ result # NoOutcome
Returned == Called /\ result.kind = "ok"
Served == Assessments(catalog_data)

\* A filter argument is given when it is neither None nor empty.
GivenStr(o) == o # None /\ o # Some("")
GivenSet(o) == o # None /\ o # Some({})

\* The free text of a duration entry; empty when the key is missing or null.
DurationText(a) ==
    IF a.duration = <<>> \/ a.duration[1] = <<>> THEN <<>> ELSE a.duration[1][1]

HasDigit(text) == \E i \in 1..Len(text) : text[i] \in Digits

\* The first maximal run of consecutive digits of a text that has a digit.
FirstDigitRun(text) ==
    LET first == CHOOSE i \in 1..Len(text) :
                    text[i] \in Digits /\ \A j \in 1..(i - 1) : text[j] \notin Digits
        last == CHOOSE k \in first..Len(text) :
                    /\ \A j \in first..k : text[j] \in Digits
                    /\ (k = Len(text) \/ text[k + 1] \notin Digits)
    IN SubSeq(text, first, last)

\* Decimal value of a run of digits, most significant first.
RunValue(run) ==
    LET RECURSIVE Value(_, _)
        Value(k, acc) ==
            IF k > Len(run) THEN acc ELSE Value(k + 1, 10 * acc + DigitVal(run[k]))
    IN Value(1, 0)

\* The duration in minutes as section 4.3 of the specification defines it.
FirstRunDuration(a) ==
    IF HasDigit(DurationText(a)) THEN RunValue(FirstDigitRun(DurationText(a))) ELSE 0

PassesJobLevel(a) == GivenStr(args.job_level) => args.job_level[1] \in a.job_levels
PassesLanguages(a) == GivenSet(args.languages) => (a.languages \cap args.languages[1]) # {}
PassesTestType(a) == GivenStr(args.test_type) => a.test_type = args.test_type
PassesDurationCap(a, minutes) == args.duration_max # None => minutes <= args.duration_max[1]

\* The catalog positions that reach the scoring step of the last call.
Survivors ==
    {i \in 1..Len(Served) :
        /\ PassesJobLevel(Served[i]) /\ PassesLanguages(Served[i])
        /\ PassesTestType(Served[i])
        /\ PassesDurationCap(Served[i], FilterDuration(Served[i]))
        /\ Served[i].embedding # None}

ReturnedPositions == {result.list[k].index : k \in 1..Len(result.list)}

(***************************************************************************)
(* C1: every returned item satisfies every filter that was given: its job  *)
(* levels contain job_level, its duration (first run of digits, and also   *)
(* the minutes the code compares) is at most duration_max, its languages   *)
(* meet the requested ones, its test_type equals test_type.                *)
(***************************************************************************)
C1_ReturnedItemsSatisfyFilters ==
    Returned =>
        \A k \in 1..Len(result.list) :
            LET a == result.list[k].assessment
            IN /\ a = Served[result.list[k].index]
               /\ PassesJobLevel(a)
               /\ PassesDurationCap(a, FirstRunDuration(a))
               /\ PassesDurationCap(a, FilterDuration(a))
               /\ PassesLanguages(a)
               /\ PassesTestType(a)

C1_Witness ==
    /\ Returned /\ Len(result.list) >= 1
    /\ GivenStr(args.job_level) /\ args.duration_max # None
    /\ GivenSet(args.languages) /\ GivenStr(args.test_type)
    /\ Len(Served) > Len(result.list)

(***************************************************************************)
(* C2: the returned list is sorted by descending similarity: each result   *)
(* scores at least as much as the next one.                                *)
(***************************************************************************)
C2_SortedDescending ==
    Returned =>
        \A k \in 1..(Len(result.list) - 1) :
            result.list[k].similarity >= result.list[k + 1].similarity

C2_Witness ==
    /\ Returned /\ Len(result.list) >= 2
    /\ result.list[1].similarity > result.list[2].similarity
    /\ result.list[1].index > result.list[2].index

(***************************************************************************)
(* C3: the returned list is exactly the first min(top_n, number of         *)
(* survivors) elements of the survivors sorted by descending score, the    *)
(* survivors being the records that pass every given filter and have an    *)
(* embedding; no survivor that scores strictly higher than a returned one  *)
(* is left out and nothing is padded.                                      *)
(***************************************************************************)
C3_ExactlyFirstTopNOfSurvivors ==
    Returned =>
        LET n == Min(args.top_n, Cardinality(Survivors))
        IN /\ Len(result.list) = Max(n, 0)
           /\ ReturnedPositions \subseteq Survivors
           /\ Cardinality(ReturnedPositions) = Len(result.list)
           /\ \A i \in Survivors \ ReturnedPositions :
                 \A k \in 1..Len(result.list) :
                    cosine_similarity(encode(args.query), Served[i].embedding[1])
                        <= result.list[k].similarity

(***************************************************************************)
(* C4: a call with top_n <= 0 returns an empty sequence.                   *)
(***************************************************************************)
C4_NonPositiveTopNReturnsEmpty ==
    (Returned /\ args.top_n <= 0) => result.list = <<>>

(***************************************************************************)
(* C5: results with equal similarity keep the order of the catalog.        *)
(***************************************************************************)
C5_TiesKeepCatalogOrder ==
    Returned =>
        \A k, l \in 1..Len(result.list) :
            (k < l /\ result.list[k].similarity = result.list[l].similarity)
                => result.list[k].index < result.list[l].index

C5_Witness ==
    /\ Returned
    /\ \E k, l \in 1..Len(result.list) :
          /\ k < l
          /\ result.list[k].similarity = result.list[l].similarity
          /\ result.list[k].assessment # result.list[l].assessment
    /\ \E k \in 1..Len(result.list) :
          result.list[k].similarity # result.list[1].similarity

(***************************************************************************)
(* C6: for a duration text with at least one digit, the minutes the        *)
(* duration filter compares are the integer formed by the first run of     *)
(* consecutive digits of the text.                                         *)
(***************************************************************************)
C6_DurationIsFirstDigitRun ==
    Called =>
        \A i \in 1..Len(Served) :
            HasDigit(DurationText(Served[i]))
                => FilterDuration(Served[i]) = RunValue(FirstDigitRun(DurationText(Served[i])))

UnknownDuration(a) == ~HasDigit(DurationText(a))

\* Records of unknown duration that nothing but the duration cap could stop.
UnknownDurationCandidates ==
    {i \in 1..Len(Served) :
        /\ UnknownDuration(Served[i])
        /\ PassesJobLevel(Served[i]) /\ PassesLanguages(Served[i])
        /\ PassesTestType(Served[i])
        /\ Served[i].embedding # None}

(***************************************************************************)
(* C7, as stated: a record whose duration is missing, null, empty or       *)
(* without a digit counts as 0 minutes and is never rejected by the        *)
(* duration filter, whatever duration_max is, 0 and negatives included.    *)
(***************************************************************************)
C7_UnknownDurationNeverRejected ==
    (Returned /\ args.top_n >= Len(Served)) =>
        /\ \A i \in 1..Len(Served) :
              UnknownDuration(Served[i]) => FilterDuration(Served[i]) = 0
        /\ UnknownDurationCandidates \subseteq ReturnedPositions

(***************************************************************************)
(* C7, as amended: such a record counts as 0 minutes and is never rejected *)
(* by the duration filter for any duration_max that is not negative.       *)
(***************************************************************************)
C7_UnknownDurationPassesNonNegativeCap ==
    (Returned /\ args.top_n >= Len(Served)
        /\ (args.duration_max # None => args.duration_max[1] >= 0)) =>
        /\ \A i \in 1..Len(Served) :
              UnknownDuration(Served[i]) => FilterDuration(Served[i]) = 0
        /\ UnknownDurationCandidates \subseteq ReturnedPositions

C7_Witness ==
    /\ Returned /\ args.duration_max = Some(0)
    /\ \E i \in ReturnedPositions :
          /\ Served[i].duration # <<>> /\ Served[i].duration # Some(None)
          /\ DurationText(Served[i]) # <<>> /\ UnknownDuration(Served[i])

\* The survivors whose embedding is not as long as the query vector.
MismatchedSurvivors ==
    {i \in Survivors : Len(Served[i].embedding[1]) # Len(encode(args.query))}

(***************************************************************************)
(* C8: the call ends in an error, not a list, whenever a record that       *)
(* reaches the scoring step has an embedding whose length differs from     *)
(* the query vector's; no list contains or silently omits such a record.   *)
(***************************************************************************)

C9_EveryServedRecordHasEmbedding ==
    pc = "ready" => \A i \in 1..Len(Served) : Served[i].embedding # None

(***************************************************************************)
(* C10: after load and process_embeddings the embeddings flag is true if   *)
(* and only if every record has a non-null embedding.                      *)
(***************************************************************************)
C10_FlagIffAllEmbedded ==
    pc = "ready" =>
        ((catalog_data.embeddings = Some(TRUE))
            <=> (\A i \in 1..Len(Served) : Served[i].embedding # None))

(***************************************************************************)
(* Evaluation metrics (src/app/evaluation/metrics.py).  A Python float is  *)
(* kept exactly, as a fraction <<numerator, denominator>> in lowest terms  *)
(* with a positive denominator.                                            *)
(***************************************************************************)
Abs(n) == IF n < 0 THEN -n ELSE n

RECURSIVE GCD(_, _)
GCD(a, b) == IF b = 0 THEN a ELSE GCD(b, a % b)

Rat(n, d) ==
    LET g == GCD(Abs(n), Abs(d))
        sign == IF d < 0 THEN -1 ELSE 1
    IN <<(sign * n) \div g, Abs(d) \div g>>

RatAdd(x, y) ==
    LET l == (x[2] \div GCD(x[2], y[2])) * y[2]
    IN Rat(x[1] * (l \div x[2]) + y[1] * (l \div y[2]), l)

RatMul(x, y) == Rat(x[1] * y[1], x[2] * y[2])
RatDiv(x, y) == Rat(x[1] * y[2], x[2] * y[1])
RatInt(n) == <<n, 1>>

RECURSIVE RatSum(_)
RatSum(xs) == IF xs = <<>> THEN RatInt(0) ELSE RatAdd(Head(xs), RatSum(Tail(xs)))

\* Number of predictions among the first upto that are relevant.
RelevantAmong(relevance, predictions, upto) ==
    Cardinality({i \in 1..Len(SlicePrefix(predictions, upto)) :
                    relevance[predictions[i]] = 1})

\* Mutant: the requested k is the divisor even when fewer were returned.
precision_over_requested_k(relevance, predictions, k) ==
    IF k = 0 THEN [kind |-> "ZeroDivisionError"]
    ELSE [kind |-> "ok", value |-> Rat(RelevantAmong(relevance, predictions, k), k)]

\* precision_at_k: k is reduced to the number of predictions; the relevant
\* ones among predictions[:k] are counted and divided by k.  predictions
\* holds 0-based catalog indices, kept 1-based here.
precision_at_k(relevance, predictions, k) ==
    LET kk == IF Len(predictions) < k THEN Len(predictions) ELSE k
    IN IF kk = 0 THEN [kind |-> "ZeroDivisionError"]
       ELSE [kind |-> "ok", value |-> Rat(RelevantAmong(relevance, predictions, kk), kk)]

\* Mutant: the rank counted from 0, so the reciprocal is one place off.
reciprocal_rank_off_by_one(relevance, predictions) ==
    LET hits == {i \in 1..Len(predictions) : relevance[predictions[i]] = 1}
    IN IF hits = {} THEN RatInt(0)
       ELSE Rat(1, 1 + CHOOSE i \in hits : \A j \in hits : i <= j)

\* mean_reciprocal_rank: 1 / (position of the first relevant prediction).
mean_reciprocal_rank(relevance, predictions) ==
    LET hits == {i \in 1..Len(predictions) : relevance[predictions[i]] = 1}
    IN IF hits = {} THEN RatInt(0)
       ELSE Rat(1, CHOOSE i \in hits : \A j \in hits : i <= j)

\* The values one recommendation adds to unique_features: the elements of
\* a list-valued field, the value of a scalar field that is present.
FeatureValues(rec, feature_field) ==
    IF feature_field = "job_levels" THEN rec.assessment.job_levels
    ELSE IF IsNone(rec.assessment.test_type) THEN {}
    ELSE {Val(rec.assessment.test_type)}

UniqueFeatures(recommendations, feature_field) ==
    UNION {FeatureValues(recommendations[i], feature_field) :
              i \in 1..Len(recommendations)}

\* Mutant: one value per item at most.
diversity_capped(recommendations, feature_field) ==
    IF recommendations = <<>> THEN RatInt(0)
    ELSE Rat(Min(Cardinality(UniqueFeatures(recommendations, feature_field)),
                 Len(recommendations)),
             Len(recommendations))

\* diversity_score: unique values over the number of recommendations, 0
\* for an empty list.
diversity_score(recommendations, feature_field) ==
    IF recommendations = <<>> THEN RatInt(0)
    ELSE Rat(Cardinality(UniqueFeatures(recommendations, feature_field)),
             Len(recommendations))

\* 1 / log2(i + 1) in units of 1/300, rounded, for the first ten ranks.
Discount(i) ==
    CASE i = 1 -> 300 [] i = 2 -> 189 [] i = 3 -> 150 [] i = 4 -> 129
      [] i = 5 -> 116 [] i = 6 -> 107 [] i = 7 -> 100 [] i = 8 -> 95
      [] i = 9 -> 90 [] OTHER -> 87

RECURSIVE DiscountSum(_, _)
DiscountSum(from, to) ==
    IF from > to THEN 0 ELSE Discount(from) + DiscountSum(from + 1, to)

\* sklearn ndcg_score([y_true], [y_score], k) for 0/1 scores: documents
\* with equal score tie, and a tie group shares the discounts of the ranks
\* it covers (up to k), weighted by its average relevance; the gain is
\* divided by the ideal DCG, or is 0 when nothing is relevant.
ndcg_score(y_true, y_score, k) ==
    LET n == Len(y_true)
        top == {i \in 1..n : y_score[i] = 1}
        rest == (1..n) \ top
        m == Cardinality(top)
        Relevant(S) == Cardinality({i \in S : y_true[i] = 1})
        part(S, from, to) ==
            IF S = {} THEN RatInt(0)
            ELSE Rat(Relevant(S) * DiscountSum(from, Min(to, k)), Cardinality(S))
        dcg == RatAdd(part(top, 1, m), part(rest, m + 1, n))
        ideal == DiscountSum(1, Min(Relevant(1..n), k))
    IN IF ideal = 0 THEN RatInt(0) ELSE RatDiv(dcg, RatInt(ideal))

\* calculate_ndcg: k is reduced to the length of the prediction vector.
\* ndcg_score raises ValueError on an empty vector, and, in the releases of
\* the library that refuse a single document (strict), on a vector of one.
calculate_ndcg(relevance_scores, predictions, k, strict) ==
    LET kk == IF Len(predictions) < k THEN Len(predictions) ELSE k
    IN IF Len(predictions) = 0 \/ kk <= 0 \/ (strict /\ Len(predictions) = 1)
       THEN [kind |-> "ValueError"]
       ELSE [kind |-> "ok", value |-> ndcg_score(relevance_scores, predictions, kk)]

(***************************************************************************)
(* RecommenderBenchmark.run_benchmark (src/app/evaluation/benchmark.py).   *)
(***************************************************************************)
TestQuery(query, relevant_assessments, job_level, languages) ==
    [query |-> query, relevant_assessments |-> relevant_assessments,
     job_level |-> job_level, languages |-> languages]

\* The ranker call of run_benchmark: the query with its job_level and
\* languages (None when the test case has none) and top_n = 10.
BenchmarkCall(query_data) ==
    Call(query_data.query, query_data.job_level, None, query_data.languages, None, 10)

\* A list comprehension yields a list: the positions are materialised.
ListOf(f) == SubSeq(f, 1, Len(f))

Names(assessments) == ListOf([i \in 1..Len(assessments) |-> assessments[i].name])

RecNames(recommendations) ==
    ListOf([j \in 1..Len(recommendations) |-> recommendations[j].assessment.name])

\* list.index(name): the first position that holds the name.
IndexOf(names, name) ==
    CHOOSE i \in 1..Len(names) : names[i] = name /\ \A j \in 1..(i - 1) : names[j] # name

Relevance(all_assessments, query_data) ==
    ListOf([i \in 1..Len(all_assessments) |->
        IF all_assessments[i] \in query_data.relevant_assessments THEN 1 ELSE 0])

PredIndices(all_assessments, rec_names) ==
    ListOf([j \in 1..Len(rec_names) |-> IndexOf(all_assessments, rec_names[j])])

\* Mutant: only the first prediction is marked.
PredVectorOfFirst(all_assessments, pred_indices) ==
    ListOf([i \in 1..Len(all_assessments) |->
        IF pred_indices # <<>> /\ pred_indices[1] = i THEN 1 ELSE 0])

PredVector(all_assessments, pred_indices) ==
    ListOf([i \in 1..Len(all_assessments) |->
        IF \E j \in 1..Len(pred_indices) : pred_indices[j] = i THEN 1 ELSE 0])

\* The result dict of one query: the metrics in the order of the dict
\* literal; the first exception ends the run.
QueryResult(query_data, recommendations, rec_names, relevance, pred_indices, pred_vector, k, strict) ==
    LET precision == precision_at_k(relevance, pred_indices, k)
        ndcg == calculate_ndcg(relevance, pred_vector, k, strict)
    IN IF precision.kind # "ok" THEN [kind |-> precision.kind]
       ELSE IF ndcg.kind # "ok" THEN [kind |-> ndcg.kind]
       ELSE [kind |-> "ok",
             query |-> query_data.query,
             precision_at_k |-> precision.value,
             ndcg_at_k |-> ndcg.value,
             mrr |-> mean_reciprocal_rank(relevance, pred_indices),
             diversity_job_levels |->
                 diversity_score(SlicePrefix(recommendations, k), "job_levels"),
             diversity_test_types |->
                 diversity_score(SlicePrefix(recommendations, k), "test_type"),
             top_recommendations |-> SlicePrefix(rec_names, k)]

\* One pass of the loop body: the ranker, the name lists, the relevance
\* and prediction vectors, then the result dict.
EvaluateQuery(catalog, query_data, k, strict) ==
    LET recommended == Recommend(catalog, BenchmarkCall(query_data))
    IN IF recommended.kind # "ok" THEN [kind |-> recommended.kind]
       ELSE IF IsNone(catalog.assessments) THEN [kind |-> "KeyError"]
       ELSE
         LET rec_names == RecNames(recommended.list)
             all_assessments == Names(Val(catalog.assessments))
             relevance == Relevance(all_assessments, query_data)
             pred_indices == PredIndices(all_assessments, rec_names)
             pred_vector == PredVector(all_assessments, pred_indices)
         IN QueryResult(query_data, recommended.list, rec_names, relevance,
                        pred_indices, pred_vector, k, strict)

\* The for loop over self.test_queries.
RECURSIVE EvaluateAll(_, _, _, _, _)
EvaluateAll(catalog, test_queries, k, strict, results) ==
    IF test_queries = <<>> THEN [kind |-> "ok", results |-> results]
    ELSE LET r == EvaluateQuery(catalog, Head(test_queries), k, strict)
         IN IF r.kind # "ok" THEN [kind |-> r.kind]
            ELSE EvaluateAll(catalog, Tail(test_queries), k, strict, Append(results, r))

\* Mutant: an empty result list averages to 0 instead of dividing by 0.
AverageOrZero(values) ==
    IF values = <<>> THEN [kind |-> "ok", value |-> RatInt(0)]
    ELSE [kind |-> "ok", value |-> RatDiv(RatSum(values), RatInt(Len(values)))]

\* sum(...) / len(results).
Average(values) ==
    IF values = <<>> THEN [kind |-> "ZeroDivisionError"]
    ELSE [kind |-> "ok", value |-> RatDiv(RatSum(values), RatInt(Len(values)))]

Column(results, metric) == ListOf([i \in 1..Len(results) |-> results[i][metric]])

\* The averages and the summary dict.
Summary(results) ==
    IF Average(Column(results, "precision_at_k")).kind # "ok"
    THEN [kind |-> Average(Column(results, "precision_at_k")).kind]
    ELSE [kind |-> "ok",
          avg_precision_at_k |-> Average(Column(results, "precision_at_k")).value,
          avg_ndcg_at_k |-> Average(Column(results, "ndcg_at_k")).value,
          avg_mrr |-> Average(Column(results, "mrr")).value,
          avg_diversity_job_levels |->
              Average(Column(results, "diversity_job_levels")).value,
          avg_diversity_test_types |->
              Average(Column(results, "diversity_test_types")).value,
          detailed_results |-> results]

RunBenchmark(catalog, test_queries, k, strict) ==
    LET evaluated == EvaluateAll(catalog, test_queries, k, strict, <<>>)
    IN IF evaluated.kind # "ok" THEN [kind |-> evaluated.kind]
       ELSE Summary(evaluated.results)

\* The local variables of one pass of the loop body, as far as the pass
\* gets: the ranker call and its outcome, then pred_indices and pred_vector
\* (empty when the pass ends before line 64).
LoopLocals(catalog, query_data) ==
    LET call == BenchmarkCall(query_data)
        recommended == Recommend(catalog, call)
        reached == recommended.kind = "ok" /\ ~IsNone(catalog.assessments)
        all_assessments == Names(Assessments(catalog))
        pred_indices ==
            IF reached THEN PredIndices(all_assessments, RecNames(recommended.list))
            ELSE <<>>
    IN [call |-> call,
        recommendations |-> IF recommended.kind = "ok" THEN recommended.list ELSE <<>>,
        pred_indices |-> pred_indices,
        pred_vector |-> IF reached THEN PredVector(all_assessments, pred_indices)
                        ELSE <<>>]

\* The locals of every pass the loop starts: it stops at the first pass
\* that raises.
RECURSIVE LocalsOfRun(_, _, _, _)
LocalsOfRun(catalog, test_queries, k, strict) ==
    IF test_queries = <<>> THEN <<>>
    ELSE <<LoopLocals(catalog, Head(test_queries))>>
           \o (IF EvaluateQuery(catalog, Head(test_queries), k, strict).kind # "ok"
               THEN <<>>
               ELSE LocalsOfRun(catalog, Tail(test_queries), k, strict))

KArgs == {1, 3, 5, 10}

run_benchmark(k, strict) ==
    /\ pc = "ready"
    /\ benchmark.summary = NoSummary
    /\ benchmark' = [benchmark EXCEPT
                        !.k = k,
                        !.summary = RunBenchmark(catalog_data, benchmark.test_queries,
                                                 k, strict),
                        !.locals = LocalsOfRun(catalog_data, benchmark.test_queries,
                                               k, strict)]
    /\ UNCHANGED <<file, pc, catalog_data, writes, load_error, args, result, runs,
                   procs, threads>>

\* The caller takes the summary (or the exception).
TakeSummary ==
    /\ pc = "ready"
    /\ benchmark.summary # NoSummary
    /\ benchmark' = [benchmark EXCEPT !.k = 0, !.summary = NoSummary, !.locals = <<>>]
    /\ UNCHANGED <<file, pc, catalog_data, writes, load_error, args, result, runs,
                   procs, threads>>

(***************************************************************************)
(* The benchmark over small catalogs and test-query files.                 *)
(***************************************************************************)
BenchPool == {VerbalReasoning, NumericalReasoning, LeadershipAssessment}

\* A second record under a name the catalog already has.
VerbalReasoningShort ==
    Assessment("Verbal Reasoning", "Short form", {"entry"}, {"en"},
               Some(Some(Text15To20Minutes)), Some("cognitive"), Some(<<0, 1>>))

DuplicateNameCatalog == <<VerbalReasoning, VerbalReasoningShort>>

BenchFiles ==
    {File("json", Catalog(Some(l), e)) :
        l \in SeqsUpTo(BenchPool, MaxCatalog)
                 \cup {ExampleCatalog, DuplicateNameCatalog},
        e \in {None, Some(TRUE)}}
      \cup {File("json", Catalog(None, Some(TRUE)))}

TestQueryPool ==
    {TestQuery("numbers", {"Verbal Reasoning"}, None, None),
     TestQuery("verbal", {"Verbal Reasoning", "Leadership Assessment"},
               Some("senior"), Some({"en"})),
     TestQuery("verbal", {"Nonexistent"}, Some("entry"), None),
     TestQuery("numbers", {"Numerical Reasoning"}, Some("director"), None)}

InitBench ==
    /\ file \in BenchFiles
    /\ pc = "start"
    /\ catalog_data = NoCatalog
    /\ writes = 0
    /\ load_error = ""
    /\ args = NoCall
    /\ result = NoOutcome
    /\ runs = 0
    /\ benchmark \in {[test_queries |-> t, k |-> 0, summary |-> NoSummary,
                        locals |-> <<>>] :
                         t \in SeqsUpTo(TestQueryPool, MaxTestQueries)}
    /\ procs = NoProcs
    /\ threads = NoThreads

NextBench ==
    \/ Construct
    \/ TakeSummary
    \/ \E k \in KArgs, strict \in BOOLEAN : run_benchmark(k, strict)

SpecBench == InitBench /\ [][NextBench]_vars

\* The served catalog is a catalog object (not JSON of another shape).
ServesCatalog == pc = "ready" /\ ~IsTopLevelList(catalog_data)

(***************************************************************************)
(* C11: once the embeddings have been generated, running                   *)
(* process_embeddings again, or constructing a second recommender on the   *)
(* persisted file, changes neither the in-memory catalog nor its flag and  *)
(* writes nothing to the catalog file.                                     *)
(***************************************************************************)
C11_SecondRunIsNoOp ==
    [][pc = "ready" =>
          /\ pc' = "ready"
          /\ catalog_data' = catalog_data
          /\ file' = file
          /\ writes' = writes]_vars

C11_Witness ==
    /\ ServesCatalog /\ runs >= 2 /\ writes = 1
    /\ Len(Assessments(catalog_data)) >= 2
    /\ catalog_data.embeddings = Some(TRUE)

(***************************************************************************)
(* C12: when process_embeddings has generated embeddings, every record     *)
(* holds encode(name + " " + description), the flag is true, and the file  *)
(* has been rewritten so that loading it yields exactly the in-memory      *)
(* catalog.                                                                *)
(***************************************************************************)
C12_GeneratedAndPersisted ==
    (pc = "ready" /\ writes >= 1) =>
        /\ catalog_data.embeddings = Some(TRUE)
        /\ \A i \in 1..Len(Assessments(catalog_data)) :
              LET a == Assessments(catalog_data)[i]
              IN a.embedding = Some(encode(a.name \o " " \o a.description))
        /\ file.kind = "json"
        /\ file.data = catalog_data
        /\ writes = 1

C12_Witness ==
    /\ pc = "ready" /\ writes >= 1
    /\ \E i, j \in 1..Len(Assessments(catalog_data)) :
          Assessments(catalog_data)[i].embedding # Assessments(catalog_data)[j].embedding

(***************************************************************************)
(* C13: construction fails with a not-found error when the file is absent  *)
(* and with a malformed-data error when its content is not a catalog of    *)
(* the expected shape (unparsable text, a top-level list, records that are *)
(* no objects); no recommender is produced from such a file.               *)
(***************************************************************************)
ExpectedShape(data) ==
    /\ ~IsTopLevelList(data)
    /\ \A i \in 1..Len(Assessments(data)) : IsObject(Assessments(data)[i])

C13_LoadFailsOnAbsentOrMalformed ==
    pc # "start" =>
        /\ file.kind = "absent" => (pc = "failed" /\ load_error = "FileNotFoundError")
        /\ (file.kind = "garbage" \/ (file.kind = "json" /\ ~ExpectedShape(file.data)))
              => (pc = "failed" /\ load_error \in {"JSONDecodeError", "AttributeError"})


(***************************************************************************)
(* Vocabulary of the benchmark properties: what the ranker returns for a   *)
(* test case on the served catalog, and the value of a fraction.           *)
(***************************************************************************)
BenchRan == pc = "ready" /\ benchmark.summary.kind # "none"
BenchDone == pc = "ready" /\ benchmark.summary.kind = "ok"
Ranked(q) == Recommend(catalog_data, BenchmarkCall(q)).list
RankedNames(q) == [j \in 1..Len(Ranked(q)) |-> Ranked(q)[j].assessment.name]
RelevantIn(q, names, upto) ==
    Cardinality({j \in 1..Min(upto, Len(names)) : names[j] \in q.relevant_assessments})
IsFraction(x, n, d) == d # 0 /\ x[1] * d = n * x[2]
ExampleRanking == <<"Numerical Reasoning", "Verbal Reasoning", "Leadership Assessment">>
IsExample(q) ==
    q.relevant_assessments = {"Verbal Reasoning"} /\ RankedNames(q) = ExampleRanking
PerQuery(i) == benchmark.summary.detailed_results[i]

\* C14: a reported precision_at_k is the number of relevant names among the
\* first k' returned names over k', with k' = min(k, number returned); on
\* the example ranking Precision@1 = 0 and Precision@3 = 1/3.
C14_PrecisionOverReturnedPrefix ==
    BenchDone =>
        \A i \in 1..Len(benchmark.test_queries) :
            LET q == benchmark.test_queries[i]
                kk == Min(benchmark.k, Len(RankedNames(q)))
            IN /\ IsFraction(PerQuery(i).precision_at_k,
                             RelevantIn(q, RankedNames(q), kk), kk)
               /\ (IsExample(q) /\ benchmark.k = 1) =>
                      PerQuery(i).precision_at_k = <<0, 1>>
               /\ (IsExample(q) /\ benchmark.k = 3) =>
                      PerQuery(i).precision_at_k = <<1, 3>>

\* The example ranking evaluated with k = 5: three names were returned and
\* the precision is 1/3, not 1/5.
C14_Witness ==
    /\ BenchDone
    /\ benchmark.k = 5
    /\ \E i \in 1..Len(benchmark.test_queries) :
          /\ IsExample(benchmark.test_queries[i])
          /\ PerQuery(i).precision_at_k = <<1, 3>>

FirstRelevant(q) ==
    {j \in 1..Len(RankedNames(q)) :
        /\ RankedNames(q)[j] \in q.relevant_assessments
        /\ \A h \in 1..(j - 1) : RankedNames(q)[h] \notin q.relevant_assessments}

\* C15: a reported mrr is 1/r for the 1-indexed position r of the first
\* relevant name in the whole ranking, 0 when no returned name is relevant,
\* 1 when the first name is relevant, and 1/2 on the example ranking.
C15_ReciprocalRankOfFirstRelevant ==
    BenchDone =>
        \A i \in 1..Len(benchmark.test_queries) :
            LET q == benchmark.test_queries[i]
            IN /\ \A r \in FirstRelevant(q) : PerQuery(i).mrr = <<1, r>>
               /\ FirstRelevant(q) = {} => PerQuery(i).mrr = <<0, 1>>
               /\ 1 \in FirstRelevant(q) => PerQuery(i).mrr = <<1, 1>>
               /\ IsExample(q) => PerQuery(i).mrr = <<1, 2>>

\* One run that reports 1/2 on the example ranking and 0 for a test case
\* with no relevant name among the returned ones.
C15_Witness ==
    /\ BenchDone
    /\ \E i, j \in 1..Len(benchmark.test_queries) :
          /\ IsExample(benchmark.test_queries[i])
          /\ PerQuery(i).mrr = <<1, 2>>
          /\ Ranked(benchmark.test_queries[j]) # <<>>
          /\ PerQuery(j).mrr = <<0, 1>>

TopK(q) == SlicePrefix(Ranked(q), benchmark.k)
DistinctJobLevels(q) == UNION {TopK(q)[j].assessment.job_levels : j \in 1..Len(TopK(q))}
DistinctTestTypes(q) ==
    {Val(TopK(q)[j].assessment.test_type) :
        j \in {h \in 1..Len(TopK(q)) : ~IsNone(TopK(q)[h].assessment.test_type)}}

\* C16 (as stated): a reported diversity score is the number of distinct
\* field values among the top-k recommendations divided by k, also when
\* fewer than k were returned.
C16_DiversityOverK ==
    BenchDone =>
        \A i \in 1..Len(benchmark.test_queries) :
            LET q == benchmark.test_queries[i]
            IN /\ IsFraction(PerQuery(i).diversity_job_levels,
                             Cardinality(DistinctJobLevels(q)), benchmark.k)
               /\ IsFraction(PerQuery(i).diversity_test_types,
                             Cardinality(DistinctTestTypes(q)), benchmark.k)

\* C16 (amended): a reported diversity score is the number of distinct
\* field values among the top-k recommendations, every element of a
\* list-valued field counted, divided by the number of recommendations in
\* that top-k slice, min(k, number returned).
C16_DiversityOverReturnedTopK ==
    BenchDone =>
        \A i \in 1..Len(benchmark.test_queries) :
            LET q == benchmark.test_queries[i]
            IN /\ IsFraction(PerQuery(i).diversity_job_levels,
                             Cardinality(DistinctJobLevels(q)), Len(TopK(q)))
               /\ IsFraction(PerQuery(i).diversity_test_types,
                             Cardinality(DistinctTestTypes(q)), Len(TopK(q)))
               /\ Len(TopK(q)) = Min(benchmark.k, Len(Ranked(q)))

\* Fewer than k were returned, and the list-valued field has more distinct
\* values than there are recommendations.
C16_Witness ==
    /\ BenchDone
    /\ \E i \in 1..Len(benchmark.test_queries) :
          LET q == benchmark.test_queries[i]
          IN /\ Len(Ranked(q)) < benchmark.k
             /\ Cardinality(DistinctJobLevels(q)) > Len(TopK(q))
             /\ PerQuery(i).diversity_job_levels[1] = Cardinality(DistinctJobLevels(q))

\* C17: every reported diversity score lies in [0, 1].
C17_DiversityWithinUnitInterval ==
    BenchDone =>
        \A i \in 1..Len(benchmark.test_queries) :
            /\ 0 <= PerQuery(i).diversity_job_levels[1]
            /\ PerQuery(i).diversity_job_levels[1] <= PerQuery(i).diversity_job_levels[2]
            /\ 0 <= PerQuery(i).diversity_test_types[1]
            /\ PerQuery(i).diversity_test_types[1] <= PerQuery(i).diversity_test_types[2]

\* The discounted gain of the first k names in the order returned, in the
\* units of Discount.
RECURSIVE OrderedDCG(_, _, _, _)
OrderedDCG(q, names, from, to) ==
    IF from > to THEN 0
    ELSE (IF names[from] \in q.relevant_assessments THEN Discount(from) ELSE 0)
             + OrderedDCG(q, names, from + 1, to)

RelevantInCatalog(q) ==
    Cardinality({j \in 1..Len(Assessments(catalog_data)) :
                    Assessments(catalog_data)[j].name \in q.relevant_assessments})

\* The DCG of an ideal ordering: of the returned names, or of the catalog.
IdealDCGs(q) ==
    {DiscountSum(1, Min(benchmark.k, RelevantIn(q, RankedNames(q), Len(RankedNames(q))))),
     DiscountSum(1, Min(benchmark.k, RelevantInCatalog(q)))}

\* C18: a reported ndcg_at_k is the discounted gain of the first k names in
\* the ranker's order divided by the gain of the ideal ordering.
C18_NdcgFollowsReturnedOrder ==
    BenchDone =>
        \A i \in 1..Len(benchmark.test_queries) :
            LET q == benchmark.test_queries[i]
                dcg == OrderedDCG(q, RankedNames(q), 1,
                                  Min(benchmark.k, Len(RankedNames(q))))
            IN \E ideal \in IdealDCGs(q) :
                  IF ideal = 0 THEN PerQuery(i).ndcg_at_k = <<0, 1>>
                  ELSE IsFraction(PerQuery(i).ndcg_at_k, dcg, ideal)

IsMean(avg, metric) ==
    LET n == Len(benchmark.summary.detailed_results)
        values == [i \in 1..n |-> PerQuery(i)[metric]]
    IN n > 0 /\ RatMul(avg, RatInt(n)) = RatSum(values)

\* C19: every reported average is the arithmetic mean of the per-query
\* values over all test cases, and a run over an empty test-case set ends
\* in a division by zero.
C19_AveragesAreMeans ==
    /\ (BenchRan /\ benchmark.test_queries = <<>>) =>
           benchmark.summary.kind = "ZeroDivisionError"
    /\ BenchDone =>
           /\ Len(benchmark.summary.detailed_results) = Len(benchmark.test_queries)
           /\ IsMean(benchmark.summary.avg_precision_at_k, "precision_at_k")
           /\ IsMean(benchmark.summary.avg_ndcg_at_k, "ndcg_at_k")
           /\ IsMean(benchmark.summary.avg_mrr, "mrr")
           /\ IsMean(benchmark.summary.avg_diversity_job_levels, "diversity_job_levels")
           /\ IsMean(benchmark.summary.avg_diversity_test_types, "diversity_test_types")

\* Two test cases with different precision and a mean strictly between.
C19_Witness ==
    /\ BenchDone
    /\ Len(benchmark.test_queries) = 2
    /\ PerQuery(1).precision_at_k = <<1, 3>>
    /\ PerQuery(2).precision_at_k = <<0, 1>>
    /\ benchmark.summary.avg_precision_at_k = <<1, 6>>

NamesUnknown(q) ==
    \A j \in 1..Len(Assessments(catalog_data)) :
        Assessments(catalog_data)[j].name \notin q.relevant_assessments

\* C20: a run whose test cases all name relevant assessments that are not
\* in the catalog raises no error and scores each of them 0.
C20_UnknownNamesScoreZero ==
    (/\ BenchRan
     /\ benchmark.test_queries # <<>>
     /\ \A i \in 1..Len(benchmark.test_queries) : NamesUnknown(benchmark.test_queries[i]))
    => /\ benchmark.summary.kind = "ok"
       /\ \A i \in 1..Len(benchmark.test_queries) :
             /\ PerQuery(i).precision_at_k = <<0, 1>>
             /\ PerQuery(i).mrr = <<0, 1>>
             /\ PerQuery(i).ndcg_at_k = <<0, 1>>


\* C21: every ranker call of a benchmark run asks for more candidates than
\* the evaluation cutoff k.
C21_TopNExceedsCutoff ==
    BenchRan =>
        \A i \in 1..Len(benchmark.locals) : benchmark.locals[i].call.top_n > benchmark.k


\* C22: pred_indices has one entry per recommendation, and its j-th entry
\* is the catalog position of the j-th returned record, so no position
\* occurs twice.
C22_PredIndicesLocateReturnedRecords ==
    BenchRan =>
        \A i \in 1..Len(benchmark.locals) :
            LET l == benchmark.locals[i]
            IN /\ Len(l.pred_indices) = Len(l.recommendations)
               /\ \A j \in 1..Len(l.pred_indices) :
                     Assessments(catalog_data)[l.pred_indices[j]]
                         = l.recommendations[j].assessment
               /\ \A j, h \in 1..Len(l.pred_indices) :
                     l.pred_indices[j] = l.pred_indices[h] => j = h

\* C23: over a persisted catalog without the 'assessments' key the
\* construction succeeds and a benchmark run does not fail on the key.
C23_MissingAssessmentsIsEmptyCatalog ==
    (file.kind = "json" /\ ~IsTopLevelList(file.data) /\ IsNone(file.data.assessments)
        /\ pc # "start")
    => /\ pc = "ready"
       /\ BenchRan => benchmark.summary.kind # "KeyError"

\* C28: over a catalog of two or more records, a run over a non-empty
\* set of test queries ends with a summary, also when the ranker returns
\* nothing for one of them.
C28_RunEndsWithSummary ==
    (/\ BenchRan
     /\ benchmark.test_queries # <<>>
     /\ Len(Assessments(catalog_data)) >= 2)
    => benchmark.summary.kind = "ok"

IndexSet(l) == {l.pred_indices[j] : j \in 1..Len(l.pred_indices)}
Reached(l) == l.recommendations # <<>>

\* C29: the prediction vector marks exactly the catalog positions among
\* the recommendations, so two passes with the same set of positions, in
\* whatever order, have the same vector, and the cutoff k has no part in it.
C29_PredVectorIsSetIndicator ==
    BenchRan =>
        /\ \A i \in 1..Len(benchmark.locals) :
              LET l == benchmark.locals[i]
              IN Reached(l) =>
                   /\ Len(l.pred_vector) = Len(Assessments(catalog_data))
                   /\ \A n \in 1..Len(l.pred_vector) :
                         l.pred_vector[n] = IF n \in IndexSet(l) THEN 1 ELSE 0
        /\ \A i, j \in 1..Len(benchmark.locals) :
              (/\ Reached(benchmark.locals[i]) /\ Reached(benchmark.locals[j])
               /\ IndexSet(benchmark.locals[i]) = IndexSet(benchmark.locals[j]))
              => benchmark.locals[i].pred_vector = benchmark.locals[j].pred_vector

\* Two passes of one run return the same two records in opposite orders.
C29_Witness ==
    /\ BenchRan
    /\ \E i, j \in 1..Len(benchmark.locals) :
          LET a == benchmark.locals[i]
              b == benchmark.locals[j]
          IN /\ Len(a.pred_indices) = 2 /\ Len(b.pred_indices) = 2
             /\ a.pred_indices[1] = b.pred_indices[2]
             /\ a.pred_indices[2] = b.pred_indices[1]
             /\ a.pred_indices[1] # a.pred_indices[2]
             /\ a.pred_vector = b.pred_vector


\* C27: a ranking call, and the return of its outcome, leave the in-memory
\* catalog and the catalog file as they were, so both stay as construction
\* left them.
C27_RankingLeavesCatalogUnchanged ==
    [][pc = "ready" => (catalog_data' = catalog_data /\ file' = file)]_vars

\* A call whose filters rejected a record and that returned the rest.
C27_Witness ==
    /\ Called
    /\ result.kind = "ok"
    /\ result.list # <<>>
    /\ \E i \in 1..Len(Assessments(catalog_data)) :
          Rejected(Assessments(catalog_data)[i], args)
    /\ file.kind = "json" /\ file.data = catalog_data


(***************************************************************************)
(* Several OS processes constructing a recommender on one catalog path     *)
(* (recommender.py:7-33), step by step: the read of the file, the open     *)
(* for writing, which truncates it, the dump, and the close.  A process    *)
(* may be interrupted, or its write may fail, at any of these points.      *)
(***************************************************************************)
Processes == {1, 2}

\* The file just after open(path, 'w'), and while json.dump is under way.
Truncated == File("truncated", NoCatalog)
Partial == File("partial", NoCatalog)

Proc(at, data, observed, error) ==
    [pc |-> at, data |-> data, observed |-> observed, error |-> error]

FreshProc == Proc("start", NoCatalog, "", "")

\* json.load succeeds on a complete JSON document only.
Parses(f) == f.kind = "json"

Writing(q) == procs[q].pc \in {"opened", "dumping"}

\* Mutant: the file is opened only while no other process rewrites it.
MayOpenUnderLock(p) == \A q \in Processes \ {p} : ~Writing(q)

\* open(self.catalog_path, 'r') takes no lock: it never waits for another
\* process.
MayOpen(p) == TRUE

\* __init__, lines 12-13: open and json.load.
load(p) ==
    /\ procs[p].pc = "start"
    /\ MayOpen(p)
    /\ procs' = [procs EXCEPT ![p] =
                    IF Parses(file)
                    THEN Proc("loaded", file.data, file.kind, "")
                    ELSE Proc("failed", NoCatalog, file.kind, "JSONDecodeError")]
    /\ UNCHANGED <<file, pc, catalog_data, writes, load_error, args, result, runs,
                   benchmark, threads>>

\* process_embeddings when the key is present: nothing to do.
skip_rewrite(p) ==
    /\ procs[p].pc = "loaded"
    /\ ~NeedsEmbeddings(procs[p].data)
    /\ procs' = [procs EXCEPT ![p].pc = "ready"]
    /\ UNCHANGED <<file, pc, catalog_data, writes, load_error, args, result, runs,
                   benchmark, threads>>

\* Lines 22-32: the embeddings are generated in memory, then the file is
\* opened with mode 'w', which empties it.
open_for_write(p) ==
    /\ procs[p].pc = "loaded"
    /\ NeedsEmbeddings(procs[p].data)
    /\ procs' = [procs EXCEPT ![p].pc = "opened",
                              ![p].data = ProcessedCatalog(procs[p].data)]
    /\ file' = Truncated
    /\ UNCHANGED <<pc, catalog_data, writes, load_error, args, result, runs,
                   benchmark, threads>>

\* The open itself fails (for instance a read-only file): the exception
\* leaves __init__ and the file is as it was.
open_fails(p) ==
    /\ procs[p].pc = "loaded"
    /\ NeedsEmbeddings(procs[p].data)
    /\ procs' = [procs EXCEPT ![p].pc = "crashed", ![p].error = "OSError"]
    /\ UNCHANGED <<file, pc, catalog_data, writes, load_error, args, result, runs,
                   benchmark, threads>>

\* Line 33: json.dump writes the document piece by piece.
dump(p) ==
    /\ procs[p].pc = "opened"
    /\ procs' = [procs EXCEPT ![p].pc = "dumping"]
    /\ file' = Partial
    /\ UNCHANGED <<pc, catalog_data, writes, load_error, args, result, runs,
                   benchmark, threads>>

\* The end of the with block: the document is complete, unless another
\* process is rewriting the same file, in which case the bytes interleave
\* and either outcome is possible.
close(p) ==
    /\ procs[p].pc = "dumping"
    /\ procs' = [procs EXCEPT ![p].pc = "ready"]
    /\ file' \in {File("json", procs[p].data)}
                   \cup (IF \E q \in Processes \ {p} : Writing(q) THEN {Partial} ELSE {})
    /\ writes' = writes + 1
    /\ UNCHANGED <<pc, catalog_data, load_error, args, result, runs, benchmark, threads>>

\* The process is killed, or the write raises (disk full), between the
\* open and the close: nothing retries, nothing restores the file.
interrupt(p) ==
    /\ Writing(p)
    /\ procs' = [procs EXCEPT ![p].pc = "crashed", ![p].error = "Interrupted"]
    /\ UNCHANGED <<file, pc, catalog_data, writes, load_error, args, result, runs,
                   benchmark, threads>>

RaceFiles ==
    {File("json", Catalog(Some(l), e)) :
        l \in SeqsUpTo({VerbalReasoning, RangeTest}, MaxCatalog),
        e \in {None, Some(TRUE)}}

InitRace ==
    /\ file \in RaceFiles
    /\ pc = "start"
    /\ catalog_data = NoCatalog
    /\ writes = 0
    /\ load_error = ""
    /\ args = NoCall
    /\ result = NoOutcome
    /\ runs = 0
    /\ benchmark = NoBenchmark
    /\ procs = [p \in Processes |-> FreshProc]
    /\ threads = NoThreads

NextRace ==
    \E p \in Processes :
        \/ load(p)
        \/ skip_rewrite(p)
        \/ open_for_write(p)
        \/ open_fails(p)
        \/ dump(p)
        \/ close(p)
        \/ interrupt(p)

SpecRace == InitRace /\ [][NextRace]_vars

\* C24: when the rewrite of one process failed or was interrupted and no
\* other process has touched the path, the file holds a loadable catalog
\* without the new embeddings, ready for a second construction.
C24_InterruptedWriteLeavesLoadableCatalog ==
    \A p \in Processes :
        (/\ procs[p].pc = "crashed"
         /\ \A q \in Processes \ {p} : procs[q].pc = "start")
        => (file.kind = "json" /\ NeedsEmbeddings(file.data))

Torn == {"truncated", "partial"}

\* C25: no lock guards the rewrite: a process can always open and read
\* the path, whatever another process is doing to it, and a process fails
\* to parse exactly when it read a truncated or partially written file.
C25_RewriteIsUnlocked ==
    \A p \in Processes :
        /\ procs[p].pc = "start" => ENABLED load(p)
        /\ procs[p].pc = "failed" =>
              (procs[p].observed \in Torn /\ procs[p].error = "JSONDecodeError")
        /\ procs[p].observed \in Torn => procs[p].pc = "failed"

\* One process is inside its rewrite and the other has read the torn file
\* and failed to parse it.
C25_Witness ==
    \E p, q \in Processes :
        /\ Writing(p)
        /\ procs[q].pc = "failed"
        /\ procs[q].observed \in Torn


(***************************************************************************)
(* Concurrent get_recommendations calls on one constructed recommender     *)
(* (recommender.py:35-73), one loop iteration at a time.                   *)
(***************************************************************************)
Threads == {1, 2}

IdleThread ==
    [pc |-> "idle", call |-> NoCall, i |-> 0, filtered_assessments |-> <<>>,
     result |-> NoOutcome]

\* Mutant: the candidate list is one attribute of the recommender, shared
\* by every call.
SharedList(t) == CHOOSE u \in Threads : \A v \in Threads : u <= v

\* filtered_assessments = [] (line 39) is a local variable: each call appends
\* to a list of its own.
ListOwner(t) == t

\* Lines 38-39: the query is encoded and the candidate list created.
begin(t, call) ==
    /\ pc = "ready"
    /\ threads[t].pc = "idle"
    /\ threads' = [threads EXCEPT ![t].pc = "loop", ![t].call = call, ![t].i = 1,
                                  ![ListOwner(t)].filtered_assessments = <<>>]
    /\ UNCHANGED <<file, pc, catalog_data, writes, load_error, args, result, runs,
                   benchmark, procs>>

\* One pass of the for loop (lines 41-70) over the record at position i.
iterate(t) ==
    /\ threads[t].pc = "loop"
    /\ threads[t].i <= Len(Assessments(catalog_data))
    /\ LET a == Assessments(catalog_data)[threads[t].i]
           call == threads[t].call
           query_embedding == encode(call.query)
       IN IF Rejected(a, call) \/ IsNone(a.embedding)
          THEN threads' = [threads EXCEPT ![t].i = @ + 1]
          ELSE IF ~DimensionsAgree(query_embedding, Val(a.embedding))
          THEN threads' = [threads EXCEPT ![t].pc = "done",
                                          ![t].result = Outcome("ValueError", <<>>)]
          ELSE threads' = [threads EXCEPT
                             ![t].i = @ + 1,
                             ![ListOwner(t)].filtered_assessments =
                                 Append(@, Scored(a, threads[t].i,
                                     cosine_similarity(query_embedding,
                                                       Val(a.embedding))))]
    /\ UNCHANGED <<file, pc, catalog_data, writes, load_error, args, result, runs,
                   benchmark, procs>>

\* Lines 72-73: the list is sorted in place and its slice returned.
finish(t) ==
    /\ threads[t].pc = "loop"
    /\ threads[t].i > Len(Assessments(catalog_data))
    /\ LET sorted == SortDescending(threads[ListOwner(t)].filtered_assessments)
       IN threads' = [threads EXCEPT
                        ![t].pc = "done",
                        ![t].result = Outcome("ok", SlicePrefix(sorted,
                                                               threads[t].call.top_n)),
                        ![ListOwner(t)].filtered_assessments = sorted]
    /\ UNCHANGED <<file, pc, catalog_data, writes, load_error, args, result, runs,
                   benchmark, procs>>

\* The caller takes the outcome; the call's locals are gone.
take(t) ==
    /\ threads[t].pc = "done"
    /\ threads' = [threads EXCEPT ![t] = IdleThread]
    /\ UNCHANGED <<file, pc, catalog_data, writes, load_error, args, result, runs,
                   benchmark, procs>>

ThreadCatalogs ==
    {Catalog(Some(l), Some(TRUE)) :
        l \in {ExampleCatalog, <<VerbalReasoning, WideVector>>,
               <<Untimed, NumericalReasoning>>}}

ThreadCalls ==
    {Call("numbers", None, None, None, None, 5),
     Call("verbal", Some("mid"), None, None, None, 1),
     Call("numbers", None, Some(40), None, Some("cognitive"), -1)}

InitThreads ==
    /\ catalog_data \in ThreadCatalogs
    /\ file = File("json", catalog_data)
    /\ pc = "ready"
    /\ writes = 0
    /\ load_error = ""
    /\ args = NoCall
    /\ result = NoOutcome
    /\ runs = 1
    /\ benchmark = NoBenchmark
    /\ procs = NoProcs
    /\ threads = [t \in Threads |-> IdleThread]

NextThreads ==
    \E t \in Threads :
        \/ \E call \in ThreadCalls : begin(t, call)
        \/ iterate(t)
        \/ finish(t)
        \/ take(t)

SpecThreads == InitThreads /\ [][NextThreads]_vars

\* C26: whatever the interleaving, a call that has finished holds exactly
\* the outcome the same call yields when it runs alone on the catalog.
C26_ConcurrentCallsAreIndependent ==
    \A t \in Threads :
        threads[t].pc = "done" =>
            threads[t].result = Recommend(catalog_data, threads[t].call)

\* One call has returned candidates while another call, with other
\* arguments, is in the middle of its loop with candidates of its own.
C26_Witness ==
    \E t, u \in Threads :
        /\ threads[t].pc = "done"
        /\ threads[t].result.kind = "ok"
        /\ threads[t].result.list # <<>>
        /\ threads[u].pc = "loop"
        /\ threads[u].i > 1
        /\ threads[u].filtered_assessments # <<>>
        /\ threads[u].call # threads[t].call
        /\ threads[u].filtered_assessments # threads[t].filtered_assessments


(***************************************************************************)
(* The /recommend endpoint of the API (src/app/main.py), which filters     *)
(* the mock catalog and uses no SHLRecommender.  A score is in hundredths. *)
(***************************************************************************)
MockAssessment(id, name, score, duration, job_levels, test_type, languages) ==
    [id |-> id, name |-> name, score |-> score, duration |-> duration,
     job_levels |-> job_levels, test_type |-> test_type, languages |-> languages]

MOCK_ASSESSMENTS ==
    <<MockAssessment("SHL001", "Verbal Reasoning", 95, 30, {"entry", "mid"},
                     "cognitive", {"en"}),
      MockAssessment("SHL002", "Numerical Reasoning", 88, 45, {"mid", "senior"},
                     "cognitive", {"en", "es"}),
      MockAssessment("SHL003", "Leadership Assessment", 92, 60, {"senior"},
                     "behavioral", {"en"})>>

RecommendationRequest(query, job_level, max_duration, languages, test_type, top_n) ==
    [query |-> query, job_level |-> job_level, max_duration |-> max_duration,
     languages |-> languages, test_type |-> test_type, top_n |-> top_n]

\* Python truthiness of an Optional int.
TruthyInt(o) == ~IsNone(o) /\ Val(o) # 0

\* The body of the endpoint: four list comprehensions, each applied when
\* its request field is truthy, then the slice when top_n is truthy.
FilteredAssessments(request) ==
    LET all == MOCK_ASSESSMENTS
        by_level ==
            IF TruthyStr(request.job_level)
            THEN SelectSeq(all, LAMBDA a : Val(request.job_level) \in a.job_levels)
            ELSE all
        by_duration ==
            IF TruthyInt(request.max_duration)
            THEN SelectSeq(by_level, LAMBDA a : a.duration <= Val(request.max_duration))
            ELSE by_level
        by_language ==
            IF TruthySet(request.languages)
            THEN SelectSeq(by_duration,
                           LAMBDA a : \E lang \in Val(request.languages) :
                                         lang \in a.languages)
            ELSE by_duration
        by_type ==
            IF TruthyStr(request.test_type)
            THEN SelectSeq(by_language, LAMBDA a : a.test_type = Val(request.test_type))
            ELSE by_language
    IN IF TruthyInt(request.top_n) THEN SlicePrefix(by_type, Val(request.top_n))
       ELSE by_type

\* POST /recommend: one request at a time, answered before the next.
recommend(job_level, max_duration, languages, test_type, top_n) ==
    /\ result = NoOutcome
    /\ args' = RecommendationRequest("analyst", job_level, max_duration, languages,
                                     test_type, top_n)
    /\ result' = Outcome("ok", FilteredAssessments(args'))
    /\ UNCHANGED <<file, pc, catalog_data, writes, load_error, runs, benchmark,
                   procs, threads>>

\* The response is sent.
respond ==
    /\ result # NoOutcome
    /\ args' = NoCall
    /\ result' = NoOutcome
    /\ UNCHANGED <<file, pc, catalog_data, writes, load_error, runs, benchmark,
                   procs, threads>>

RequestJobLevels == {None, Some(""), Some("mid"), Some("senior")}
RequestDurations == {None, Some(0), Some(-1), Some(30), Some(45)}
RequestLanguages == {None, Some({}), Some({"es"}), Some({"en", "fr"})}
RequestTestTypes == {None, Some(""), Some("cognitive")}
RequestTopNs == {None, Some(0), Some(-1), Some(1), Some(2), Some(5)}

InitApi ==
    /\ file = File("absent", NoCatalog)
    /\ pc = "start"
    /\ catalog_data = NoCatalog
    /\ writes = 0
    /\ load_error = ""
    /\ args = NoCall
    /\ result = NoOutcome
    /\ runs = 0
    /\ benchmark = NoBenchmark
    /\ procs = NoProcs
    /\ threads = NoThreads

NextApi ==
    \/ respond
    \/ \E job_level \in RequestJobLevels, max_duration \in RequestDurations,
          languages \in RequestLanguages, test_type \in RequestTestTypes,
          top_n \in RequestTopNs :
            recommend(job_level, max_duration, languages, test_type, top_n)

SpecApi == InitApi /\ [][NextApi]_vars

Answered == result.kind = "ok"

\* A mock assessment satisfies every filter the request carries (an
\* absent, empty or zero field carries none).
Matches(a) ==
    /\ TruthyStr(args.job_level) => Val(args.job_level) \in a.job_levels
    /\ TruthyInt(args.max_duration) => a.duration <= Val(args.max_duration)
    /\ TruthySet(args.languages) => (a.languages \cap Val(args.languages)) # {}
    /\ TruthyStr(args.test_type) => a.test_type = Val(args.test_type)

MatchingPositions == {i \in 1..Len(MOCK_ASSESSMENTS) : Matches(MOCK_ASSESSMENTS[i])}

\* C30: the endpoint returns the matching mock assessments in mock-catalog
\* order, all of them when top_n is null or 0, and otherwise no more than
\* the first top_n of them.
C30_EndpointReturnsFirstTopNMatches ==
    Answered =>
        LET n == Len(result.list)
            limit == IF TruthyInt(args.top_n) THEN Max(Val(args.top_n), 0)
                     ELSE Len(MOCK_ASSESSMENTS)
        IN /\ n = Min(limit, Cardinality(MatchingPositions))
           /\ \A j \in 1..n :
                 \E i \in MatchingPositions :
                    /\ result.list[j] = MOCK_ASSESSMENTS[i]
                    /\ Cardinality({h \in MatchingPositions : h < i}) = j - 1

=============================================================================
